---- MODULE Spec2Model ----
(***************************************************************************)
(* A model of CausalBert.py: the confounder encoding (make_bow_vector),    *)
(* the joint forward pass of CausalBert (MLM masking, propensity loss,     *)
(* arm-partitioned outcome loss) and the wrapper's evaluation, inference   *)
(* and effect-estimation entry points (evaluate_losses, inference, ATE,    *)
(* ATT, with platt_scale's recalibration) and its training loop (train).   *)
(*                                                                         *)
(* Tensors are modelled by their shape and their entries.  A batch column  *)
(* is a sequence indexed 1..n (row i of the model is row i-1 of the        *)
(* source); token positions keep the source's 0-based numbering.  The      *)
(* encoder and the heads are external: what they compute for an example is *)
(* an arbitrary value carried by the example (fields g, q0, q1, in units   *)
(* of 1/PScale).  A loss is modelled by the terms it averages.             *)
(***************************************************************************)
EXTENDS Integers, Sequences, FiniteSets, TLC

VARIABLES
  bow,       \* make_bow_vector: the call's arguments and, after it, its result
  fwd,       \* CausalBert.forward / forward_pretrain: arguments and result
  data,      \* wrapper: the examples handed to the entry point (texts, C, T, Y)
  call,      \* wrapper: the entry point running, with its arguments
  pc,        \* wrapper: position inside the entry point
  loader,    \* wrapper: the batches the dataloader still has to yield
  acc,       \* wrapper: the lists the entry point accumulates (Q0s, Q1s, ...)
  gradEnabled, \* torch's global gradient mode
  evalMode,  \* self.model.training is False (model.eval() was called)
  passes,    \* forward passes issued so far: who issued them, under which mode
  ret,       \* wrapper: what the entry point returned or raised
  tr         \* CausalBertWrapper.train: its arguments, locals and optimizer

vars == <<bow, fwd, data, call, pc, loader, acc, gradEnabled, evalMode, passes, ret,
          tr>>

bowVars == <<bow>>
fwdVars == <<fwd>>
wrapVars == <<data, call, pc, loader, acc, gradEnabled, evalMode, passes, ret>>
trainVars == <<tr>>

(***************************************************************************)
(* Bounds of the model and constants of the program.                       *)
(***************************************************************************)
MaxBowBatch == 2    \* rows of ids handed to make_bow_vector
MaxWidth == 3       \* largest vocab_size handed to make_bow_vector
MaxBatch == 3       \* examples in one batch handed to forward
MaxSeqLen == 5      \* padded token length (128 in the source, line 484)
UDen == 3           \* uniform_() draws k/UDen, k in 0..UDen-1, i.e. [0,1)
MaxEpochs == 2      \* epochs handed to train (its default is 3)
MaxN == 2           \* examples handed to a wrapper entry point

NumLabels == 2      \* num_labels=2
MASK_IDX == 103
IGNORE == -100      \* the ignore label of CrossEntropyLoss
CLS_ID == 101       \* [CLS], add_special_tokens=True
SEP_ID == 102       \* [SEP]
PAD_ID == 0         \* pad_to_max_length=True
PScale == 10        \* probabilities are integers in units of 1/PScale

None == "None"
NoRaise == "none"

\* ---------------------------------------------------------------- helpers
RECURSIVE SumSeq(_)
SumSeq(s) == IF s = <<>> THEN 0 ELSE Head(s) + SumSeq(Tail(s))

RECURSIVE Flatten(_)
Flatten(ss) == IF ss = <<>> THEN <<>> ELSE Head(ss) \o Flatten(Tail(ss))

SeqsUpTo(S, lo, hi) == UNION {[1..k -> S] : k \in lo..hi}

\* the increasing sequence of the indices j >= i of s with s[j] = v
RECURSIVE SelectIdx(_, _, _)
SelectIdx(s, v, i) ==
  IF i > Len(s) THEN <<>>
  ELSE (IF s[i] = v THEN <<i>> ELSE <<>>) \o SelectIdx(s, v, i + 1)

(***************************************************************************)
(* make_bow_vector(ids, vocab_size, use_counts).  ids is [batch, 1]: both  *)
(* callers pass C.unsqueeze(1).  The result is the vector per row, or the  *)
(* exception the call ends with.                                           *)
(***************************************************************************)
\* a scatter that writes one column too far to the right
ScatterAddRow_Shifted(id, width) == [j \in 0..(width - 1) |-> IF j = id + 1 THEN 1 ELSE 0]

\* vec.scatter_add_(1, ids, ones) on vec = zeros: row b gets +1 at column ids[b]
ScatterAddRow(id, width) == [j \in 0..(width - 1) |-> IF j = id THEN 1 ELSE 0]

\* the pad column left as scattered
ZeroOutPad_Kept(row) == row

\* vec[:, 1] = 0.0  # zero out pad
ZeroOutPad(row) == [j \in DOMAIN row |-> IF j = 1 THEN 0 ELSE row[j]]

\* vec = (vec != 0).float()
Binarize(row) == [j \in DOMAIN row |-> IF row[j] # 0 THEN 1 ELSE 0]

BowRow(id, width, use_counts) ==
  IF use_counts THEN ZeroOutPad(ScatterAddRow(id, width))
  ELSE Binarize(ZeroOutPad(ScatterAddRow(id, width)))

\* a scatter that writes wherever the id points, inside the row or not
make_bow_vector_Unchecked(ids, vocab_size, use_counts) ==
  [raised |-> NoRaise,
   vec |-> [b \in DOMAIN ids |->
              [j \in (0..(vocab_size - 1)) \cup {ids[b]} |->
                 IF j = ids[b] /\ j # 1 THEN 1 ELSE 0]]]

\* lines 63-74.  scatter_add_ checks every index against the size of dimension 1
\* and raises RuntimeError for one outside it (a negative index is not wrapped).
make_bow_vector(ids, vocab_size, use_counts) ==
  IF \E b \in DOMAIN ids : ids[b] < 0 \/ ids[b] >= vocab_size
    THEN [raised |-> "RuntimeError", vec |-> <<>>]   \* scatter_add_: index out of range
  ELSE IF vocab_size < 2
    THEN [raised |-> "IndexError", vec |-> <<>>]     \* vec[:, 1]: no column 1
  ELSE [raised |-> NoRaise,
        vec |-> [b \in DOMAIN ids |-> BowRow(ids[b], vocab_size, use_counts)]]

BowIds == -1..MaxWidth
BowWidths == NumLabels..MaxWidth

InitBowVar ==
  \E ids \in SeqsUpTo(BowIds, 1, MaxBowBatch), w \in BowWidths, uc \in BOOLEAN :
    bow = [ids |-> ids, vocab_size |-> w, use_counts |-> uc, done |-> FALSE,
           out |-> [raised |-> NoRaise, vec |-> <<>>]]

MakeBowCall ==
  /\ ~bow.done
  /\ bow' = [bow EXCEPT !.done = TRUE,
                        !.out = make_bow_vector(bow.ids, bow.vocab_size, bow.use_counts)]
  /\ UNCHANGED <<fwdVars, wrapVars, trainVars>>

(***************************************************************************)
(* Tensor pieces used by forward.                                          *)
(***************************************************************************)
\* (T == v).nonzero().squeeze(): nonzero() is [k, 1]; squeeze() leaves a 1-d
\* tensor of k indices, except that one index collapses to a 0-d tensor.
NonzeroSqueeze(T, v) ==
  LET at == SelectIdx(T, v, 1)
  IN [dim |-> IF Len(at) = 1 THEN 0 ELSE 1, at |-> at]

\* Q_logits.view(-1, num_labels)[indices, :].view(-1, num_labels): the rows of
\* head `head` at the indexed examples, always 2-d after the view.
HeadRows(head, indices) ==
  [j \in 1..Len(indices.at) |-> [head |-> head, ex |-> indices.at[j]]]

\* Y[indices].view(-1, 1): the labels of the indexed examples, one per row.
LabelRows(Y, indices) ==
  [j \in 1..Len(indices.at) |-> [ex |-> indices.at[j], y |-> Y[indices.at[j]]]]

\* torch.cat([...], axis=0).squeeze() of [m, 1]: 1-d, or 0-d when m = 1.
CatSqueeze(a, b) ==
  LET c == a \o b IN [dim |-> IF Len(c) = 1 THEN 0 ELSE 1, at |-> c]

\* ------------------------------------------------------------------ losses
Float0 == [kind |-> "float0", terms |-> <<>>]     \* the Python float 0.0
Tensor0 == [kind |-> "tensor0", terms |-> <<>>]   \* torch.tensor(0.0)
MeanLoss(terms) ==
  IF terms = <<>> THEN [kind |-> "nan", terms |-> <<>>]
  ELSE [kind |-> "mean", terms |-> terms]
IsZeroLoss(l) == l.kind \in {"float0", "tensor0"}
IsNumericLoss(l) == l.kind \in {"float0", "tensor0", "mean"}

\* CrossEntropyLoss()(Q, Y_shuffled), Q of shape [m, num_labels]: the batch sizes
\* are compared with target.size(0), an IndexError on a 0-d target; otherwise
\* row j of Q is scored against label j.
CrossEntropyQ(Q, Ysh) ==
  IF Ysh.dim = 0 THEN [raised |-> "IndexError", loss |-> Float0]
  ELSE IF Len(Q) # Len(Ysh.at) THEN [raised |-> "ValueError", loss |-> Float0]
  ELSE [raised |-> NoRaise,
        loss |-> MeanLoss([j \in 1..Len(Q) |->
                   [head |-> Q[j].head, qex |-> Q[j].ex, col |-> -1,
                    yex |-> Ysh.at[j].ex, y |-> Ysh.at[j].y]])]

\* SmoothL1Loss()(Q, Y_shuffled): input [m, num_labels] and target are broadcast
\* against each other and compared entry by entry. A 0-d target meets every
\* entry; a target of shape [m] is aligned with the last axis of the input, so
\* it broadcasts only when m = num_labels, and entry (i, c) then meets label c.
SmoothL1Q(Q, Ysh) ==
  LET m == Len(Q)
      entries == Flatten([i \in 1..m |->
                   [c \in 1..NumLabels |-> [row |-> i, col |-> c - 1]]])
  IN IF Ysh.dim = 0
       THEN [raised |-> NoRaise,
             loss |-> MeanLoss([e \in 1..Len(entries) |->
                        [head |-> Q[entries[e].row].head, qex |-> Q[entries[e].row].ex,
                         col |-> entries[e].col,
                         yex |-> Ysh.at[1].ex, y |-> Ysh.at[1].y]])]
     ELSE IF Len(Ysh.at) # NumLabels
       THEN [raised |-> "RuntimeError", loss |-> Float0]
     ELSE [raised |-> NoRaise,
           loss |-> MeanLoss([e \in 1..Len(entries) |->
                      [head |-> Q[entries[e].row].head, qex |-> Q[entries[e].row].ex,
                       col |-> entries[e].col,
                       yex |-> Ysh.at[entries[e].col + 1].ex,
                       y |-> Ysh.at[entries[e].col + 1].y]])]

\* lines 193-215: the outcome loss of forward when Y is given.
OutcomeLoss(T, Y, response) ==
  LET T0_indices == NonzeroSqueeze(T, 0)
      T1_indices == NonzeroSqueeze(T, 1)
      Q == HeadRows(0, T0_indices) \o HeadRows(1, T1_indices)
      Y_shuffled == CatSqueeze(LabelRows(Y, T0_indices), LabelRows(Y, T1_indices))
      r == IF response = "binary" THEN CrossEntropyQ(Q, Y_shuffled)
           ELSE SmoothL1Q(Q, Y_shuffled)
  IN IF response \notin {"binary", "continuous"}
       THEN [raised |-> "ValueError", loss |-> Float0]
     ELSE IF r.raised = "IndexError"
       THEN [raised |-> NoRaise, loss |-> Tensor0]     \* except IndexError
     ELSE r

\* CrossEntropyLoss()(g.view(-1, num_labels), T.view(-1)): a class index outside
\* 0..num_labels-1 is rejected by the loss.
PropensityLoss(T) ==
  IF \E i \in DOMAIN T : T[i] < 0 \/ T[i] >= NumLabels
    THEN [raised |-> "TargetOutOfBounds", loss |-> Float0]
  ELSE [raised |-> NoRaise,
        loss |-> MeanLoss([i \in DOMAIN T |-> [ex |-> i, target |-> T[i]]])]

\* ------------------------------------------------------------- MLM masking
\* the token ids the tokenizer produces for a text of true length W_len
Tokens(W_len) ==
  [p \in 0..(MaxSeqLen - 1) |->
     IF p = 0 THEN CLS_ID
     ELSE IF p = W_len - 1 THEN SEP_ID
     ELSE IF p < W_len - 1 THEN 1000 + p
     ELSE PAD_ID]

\* .long() truncates toward zero
TruncDiv(a, b) == IF a >= 0 THEN a \div b ELSE -((-a) \div b)

\* mask = (uniform_() * (W_len - 2).float()).long() + 1, with uniform_() = k/UDen
MaskPosition(W_len, k) == TruncDiv(k * (W_len - 2), UDen) + 1

\* lines 150-158 for one row: target word, labels and the overwritten ids
MaskRow(W_len, k) ==
  LET W_ids == Tokens(W_len)
      mask == MaskPosition(W_len, k)
  IN [mask |-> mask,
      target |-> W_ids[mask],
      mlm_labels |-> [p \in DOMAIN W_ids |-> IF p = mask THEN W_ids[mask] ELSE IGNORE],
      W_ids |-> [p \in DOMAIN W_ids |-> IF p = mask THEN MASK_IDX ELSE W_ids[p]]]

NoMaskRow(W_len) ==
  [mask |-> -1, target |-> IGNORE,
   mlm_labels |-> [p \in 0..(MaxSeqLen - 1) |-> IGNORE],
   W_ids |-> Tokens(W_len)]

\* an MLM stage that ignores use_mlm and always masks
MlmStage_AlwaysOn(lens, use_mlm, u) ==
  LET rows == [i \in DOMAIN lens |-> MaskRow(lens[i], u[i])]
  IN [rows |-> rows,
      mlm_loss |-> MeanLoss([i \in DOMAIN lens |->
                     [ex |-> i, pos |-> rows[i].mask, target |-> rows[i].target]])]

\* the MLM stage of forward and forward_pretrain; u[i] is row i's random draw
MlmStage(lens, use_mlm, u) ==
  LET rows == [i \in DOMAIN lens |->
                 IF use_mlm THEN MaskRow(lens[i], u[i]) ELSE NoMaskRow(lens[i])]
  IN [rows |-> rows,
      mlm_loss |-> IF use_mlm
                     THEN MeanLoss([i \in DOMAIN lens |->
                            [ex |-> i, pos |-> rows[i].mask, target |-> rows[i].target]])
                     ELSE Float0]

Col(batch, f) == [i \in DOMAIN batch |-> batch[i][f]]

NoOut ==
  [raised |-> NoRaise, g |-> <<>>, Q0 |-> <<>>, Q1 |-> <<>>,
   g_loss |-> Float0, Q_loss |-> Float0, mlm_loss |-> Float0, rows |-> <<>>]

Raise(what, mlm) ==
  [NoOut EXCEPT !.raised = what, !.rows = mlm.rows]

\* CausalBert.forward(W_ids, W_len, W_mask, C, T, Y, use_mlm, response).
\* yGiven is "Y is not None"; u is the randomness of the masking.
forward(batch, yGiven, use_mlm, response, u) ==
  LET mlm == MlmStage(Col(batch, "W_len"), use_mlm, u)
      C_bow == make_bow_vector(Col(batch, "C"), NumLabels, FALSE)
      gl == IF yGiven THEN PropensityLoss(Col(batch, "T"))
            ELSE [raised |-> NoRaise, loss |-> Float0]
      ql == IF yGiven THEN OutcomeLoss(Col(batch, "T"), Col(batch, "Y"), response)
            ELSE [raised |-> NoRaise, loss |-> Float0]
  IN IF C_bow.raised # NoRaise THEN Raise(C_bow.raised, mlm)
     ELSE IF gl.raised # NoRaise THEN Raise(gl.raised, mlm)
     ELSE IF ql.raised # NoRaise THEN Raise(ql.raised, mlm)
     ELSE [raised |-> NoRaise,
           g |-> Col(batch, "g"), Q0 |-> Col(batch, "q0"), Q1 |-> Col(batch, "q1"),
           g_loss |-> gl.loss, Q_loss |-> ql.loss, mlm_loss |-> mlm.mlm_loss,
           rows |-> mlm.rows]

\* CausalBert.forward_pretrain(W_ids, W_len, W_mask, C, T, use_mlm).
forward_pretrain(batch, tGiven, use_mlm, u) ==
  LET mlm == MlmStage(Col(batch, "W_len"), use_mlm, u)
      C_bow == make_bow_vector(Col(batch, "C"), NumLabels, FALSE)
      gl == IF tGiven THEN PropensityLoss(Col(batch, "T"))
            ELSE [raised |-> NoRaise, loss |-> Float0]
  IN IF C_bow.raised # NoRaise THEN Raise(C_bow.raised, mlm)
     ELSE IF gl.raised # NoRaise THEN Raise(gl.raised, mlm)
     ELSE [NoOut EXCEPT !.g = Col(batch, "g"), !.g_loss = gl.loss,
                        !.mlm_loss = mlm.mlm_loss, !.rows = mlm.rows]

(***************************************************************************)
(* The states before any call: each specification starts one component and *)
(* leaves the others idle.                                                 *)
(***************************************************************************)
IdleBow ==
  bow = [ids |-> <<>>, vocab_size |-> NumLabels, use_counts |-> FALSE, done |-> TRUE,
         out |-> [raised |-> NoRaise, vec |-> <<>>]]

IdleFwd ==
  fwd = [fn |-> None, batch |-> <<>>, yGiven |-> FALSE, use_mlm |-> FALSE,
         response |-> "binary", done |-> TRUE, out |-> NoOut]

NoAcc == [Q0s |-> <<>>, Q1s |-> <<>>, Ys |-> <<>>, gs |-> <<>>,
          g_losses |-> <<>>, Q_losses |-> <<>>,
          Q0 |-> <<>>, Q1 |-> <<>>, fit |-> <<>>]
NoCall == [op |-> None, tGiven |-> FALSE, T |-> <<>>, yGiven |-> FALSE,
           platt_scaling |-> FALSE, batch_size |-> 1, response |-> "binary",
           prev_grad |-> TRUE]
NoRet == [raised |-> NoRaise, kind |-> None, num |-> 0, den |-> 1]

IdleWrap ==
  /\ data = <<>>
  /\ call = NoCall
  /\ pc = "idle"
  /\ loader = <<>>
  /\ acc = NoAcc
  /\ gradEnabled = TRUE
  /\ evalMode = FALSE
  /\ passes = {}
  /\ ret = NoRet

NoLosses == [g_loss |-> Float0, Q_loss |-> Float0, mlm_loss |-> Float0]
NoTrain == [dev |-> <<>>, epochs |-> 0, epoch |-> 0, len |-> 0, total_steps |-> 0,
            at |-> 1, losses |-> NoLosses, opt_steps |-> 0, sched_steps |-> 0,
            total_losses |-> <<>>, training_losses |-> <<>>, dev_losses |-> <<>>,
            log |-> <<>>]

IdleTrain == tr = NoTrain

(***************************************************************************)
(* make_bow_vector on its own.                                             *)
(***************************************************************************)
InitBow == InitBowVar /\ IdleFwd /\ IdleWrap /\ IdleTrain
NextBow == MakeBowCall
SpecBow == InitBow /\ [][NextBow]_vars

(***************************************************************************)
(* One call of forward or forward_pretrain on one batch.  The batches are  *)
(* drawn from four families, each varying what one stage of the call      *)
(* reads: the labels T and Y, the true lengths, the confounders in range   *)
(* and the confounders out of range.                                       *)
(***************************************************************************)
TVals == {-1, 0, 1}      \* -1 is build_dataloader's dummy value
YVals == {0, 1}
LenVals == 2..MaxSeqLen  \* [CLS] and [SEP] are always there
CVals == 0..(NumLabels - 1)
Responses == {"binary", "continuous"}

Example(C, T, Y, W_len, g, q0, q1) ==
  [C |-> C, T |-> T, Y |-> Y, W_len |-> W_len, g |-> g, q0 |-> q0, q1 |-> q1]

FwdArgs(fn, batch, yGiven, use_mlm, response) ==
  [fn |-> fn, batch |-> batch, yGiven |-> yGiven, use_mlm |-> use_mlm,
   response |-> response, done |-> FALSE, out |-> NoOut]

InitFwdLabels ==
  \E n \in 1..MaxBatch :
    \E T \in [1..n -> TVals], Y \in [1..n -> YVals],
       yGiven \in BOOLEAN, use_mlm \in BOOLEAN, response \in Responses :
      fwd = FwdArgs("forward",
                    [i \in 1..n |-> Example(0, T[i], Y[i], 3, 5, 3, 7)],
                    yGiven, use_mlm, response)

InitFwdLengths ==
  \E n \in 1..MaxBatch :
    \E lens \in [1..n -> LenVals], fn \in {"forward", "forward_pretrain"},
       use_mlm \in BOOLEAN :
      fwd = FwdArgs(fn, [i \in 1..n |-> Example(0, i % 2, 1, lens[i], 5, 3, 7)],
                    TRUE, use_mlm, "binary")

InitFwdConfounders ==
  \E n \in 1..MaxBatch :
    \E C \in [1..n -> CVals], fn \in {"forward", "forward_pretrain"} :
      fwd = FwdArgs(fn, [i \in 1..n |-> Example(C[i], i % 2, 1, 3, 5, 3, 7)],
                    TRUE, FALSE, "binary")

\* batches with a confounder that is no index into the num_labels-wide vector
InitFwdBadConfounders ==
  \E n \in 1..MaxBatch :
    \E C \in [1..n -> -1..NumLabels], fn \in {"forward", "forward_pretrain"} :
      /\ \E i \in 1..n : C[i] \notin CVals
      /\ fwd = FwdArgs(fn, [i \in 1..n |-> Example(C[i], i % 2, 1, 3, 5, 3, 7)],
                       TRUE, FALSE, "binary")

InitForward ==
  /\ InitFwdLabels \/ InitFwdLengths \/ InitFwdConfounders \/ InitFwdBadConfounders
  /\ IdleBow
  /\ IdleWrap
  /\ IdleTrain

Draws(n) == [1..n -> 0..(UDen - 1)]

ForwardCall ==
  /\ ~fwd.done
  /\ fwd.fn = "forward"
  /\ \E u \in Draws(Len(fwd.batch)) :
       fwd' = [fwd EXCEPT !.done = TRUE,
                 !.out = forward(fwd.batch, fwd.yGiven, fwd.use_mlm, fwd.response, u)]
  /\ UNCHANGED <<bowVars, wrapVars, trainVars>>

ForwardPretrainCall ==
  /\ ~fwd.done
  /\ fwd.fn = "forward_pretrain"
  /\ \E u \in Draws(Len(fwd.batch)) :
       fwd' = [fwd EXCEPT !.done = TRUE,
                 !.out = forward_pretrain(fwd.batch, fwd.yGiven, fwd.use_mlm, u)]
  /\ UNCHANGED <<bowVars, wrapVars, trainVars>>

NextForward == ForwardCall \/ ForwardPretrainCall
SpecForward == InitForward /\ [][NextForward]_vars

(***************************************************************************)
(* CausalBertWrapper: evaluate_losses, evaluate_losses_pretrain, inference, *)
(* ATE and ATT.  An entry point runs as a start step, one step per batch of *)
(* its dataloader, and a return step.                                      *)
(***************************************************************************)
\* a mean kept as the fraction num/den (units of 1/PScale)
MeanOf(xs) == [raised |-> NoRaise, kind |-> "mean", num |-> SumSeq(xs), den |-> Len(xs)]
NanRet == [raised |-> NoRaise, kind |-> "nan", num |-> 0, den |-> 1]   \* np.mean of nothing
RaisedRet(what) == [raised |-> what, kind |-> None, num |-> 0, den |-> 1]
ValueRet(kind) == [raised |-> NoRaise, kind |-> kind, num |-> 0, den |-> 1]

\* DataLoader(data, sampler=SequentialSampler(data), batch_size=self.batch_size)
RECURSIVE Batches(_, _)
Batches(examples, batch_size) ==
  IF examples = <<>> THEN <<>>
  ELSE IF Len(examples) <= batch_size THEN <<examples>>
  ELSE <<SubSeq(examples, 1, batch_size)>>
         \o Batches(SubSeq(examples, batch_size + 1, Len(examples)), batch_size)

\* build_dataloader(texts, confounds, treatments, outcomes, sampler='sequential'):
\* treatments and outcomes that are None are filled with the dummy value -1.
build_dataloader(examples, treatmentsGiven, outcomesGiven, batch_size) ==
  Batches([i \in DOMAIN examples |->
             [examples[i] EXCEPT !.T = IF treatmentsGiven THEN @ ELSE -1,
                                 !.Y = IF outcomesGiven THEN @ ELSE -1]],
          batch_size)

\* one record of the forward passes issued
Pass(fn, use_mlm) ==
  [op |-> call.op, fn |-> fn, use_mlm |-> use_mlm, grad |-> gradEnabled,
   eval |-> evalMode]

\* ------------------------------------------------------------ evaluate_losses
\* lines 397-401 (and 382-386): model.eval(), the dataloader over dev, and entry
\* into `with torch.no_grad()`
EvaluateStart ==
  /\ pc = "start"
  /\ call.op \in {"evaluate_losses", "evaluate_losses_pretrain"}
  /\ evalMode' = TRUE
  /\ loader' = build_dataloader(data, TRUE, TRUE, call.batch_size)
  /\ call' = [call EXCEPT !.prev_grad = gradEnabled]
  /\ gradEnabled' = FALSE
  /\ acc' = NoAcc
  /\ pc' = "eval_loop"
  /\ UNCHANGED <<bowVars, fwdVars, trainVars, data, passes, ret>>

\* lines 403-410: one batch of evaluate_losses
EvaluateBatch ==
  /\ pc = "eval_loop"
  /\ call.op = "evaluate_losses"
  /\ loader # <<>>
  /\ LET out == forward(Head(loader), TRUE, FALSE, call.response,
                        [i \in 1..Len(Head(loader)) |-> 0])
     IN /\ passes' = passes \cup {Pass("forward", FALSE)}
        /\ IF out.raised # NoRaise
             THEN /\ gradEnabled' = call.prev_grad     \* the with block is left
                  /\ ret' = RaisedRet(out.raised)
                  /\ pc' = "raised"
                  /\ UNCHANGED <<loader, acc>>
             ELSE /\ acc' = [acc EXCEPT !.g_losses = Append(@, out.g_loss),
                                        !.Q_losses = Append(@, out.Q_loss)]
                  /\ loader' = Tail(loader)
                  /\ UNCHANGED <<gradEnabled, ret, pc>>
  /\ UNCHANGED <<bowVars, fwdVars, trainVars, data, call, evalMode>>

\* lines 387-392: one batch of evaluate_losses_pretrain (use_mlm is left at its
\* default, True)
EvaluatePretrainBatch ==
  /\ pc = "eval_loop"
  /\ call.op = "evaluate_losses_pretrain"
  /\ loader # <<>>
  /\ \E u \in Draws(Len(Head(loader))) :
       LET out == forward_pretrain(Head(loader), TRUE, TRUE, u)
       IN /\ passes' = passes \cup {Pass("forward_pretrain", TRUE)}
          /\ IF out.raised # NoRaise
               THEN /\ gradEnabled' = call.prev_grad
                    /\ ret' = RaisedRet(out.raised)
                    /\ pc' = "raised"
                    /\ UNCHANGED <<loader, acc>>
               ELSE /\ acc' = [acc EXCEPT !.g_losses = Append(@, out.g_loss)]
                    /\ loader' = Tail(loader)
                    /\ UNCHANGED <<gradEnabled, ret, pc>>
  /\ UNCHANGED <<bowVars, fwdVars, trainVars, data, call, evalMode>>

\* lines 411-413 (393-394): the means, the end of the with block, the return
EvaluateReturn ==
  /\ pc = "eval_loop"
  /\ loader = <<>>
  /\ gradEnabled' = call.prev_grad
  /\ ret' = ValueRet("losses")
  /\ pc' = "done"
  /\ UNCHANGED <<bowVars, fwdVars, trainVars, data, call, loader, acc, evalMode, passes>>

\* ------------------------------------------------------------------ inference
\* lines 416-421: model.eval(), the dataloader (treatments are never handed over)
InferenceStart ==
  /\ pc = "start"
  /\ call.op \in {"inference", "ATE", "ATT"}
  /\ evalMode' = TRUE
  /\ loader' = build_dataloader(data, FALSE, call.yGiven, call.batch_size)
  /\ acc' = NoAcc
  /\ pc' = "inf_loop"
  /\ UNCHANGED <<bowVars, fwdVars, trainVars, data, call, gradEnabled, passes, ret>>

\* lines 422-430: one batch; Y is not handed to the model
InferenceBatch ==
  /\ pc = "inf_loop"
  /\ loader # <<>>
  /\ LET out == forward(Head(loader), FALSE, FALSE, call.response,
                        [i \in 1..Len(Head(loader)) |-> 0])
     IN /\ passes' = passes \cup {Pass("forward", FALSE)}
        /\ IF out.raised # NoRaise
             THEN /\ ret' = RaisedRet(out.raised)
                  /\ pc' = "raised"
                  /\ UNCHANGED <<loader, acc>>
             ELSE /\ acc' = [acc EXCEPT !.Q0s = @ \o out.Q0,
                                        !.Q1s = @ \o out.Q1,
                                        !.Ys = @ \o Col(Head(loader), "Y"),
                                        !.gs = @ \o out.g]
                  /\ loader' = Tail(loader)
                  /\ UNCHANGED <<ret, pc>>
  /\ UNCHANGED <<bowVars, fwdVars, trainVars, data, call, gradEnabled, evalMode>>

\* lines 431-435: probs = zip(Q0s, Q1s), preds, gs; control is back in the caller
InferenceReturn ==
  /\ pc = "inf_loop"
  /\ loader = <<>>
  /\ pc' = IF call.op = "inference" THEN "done" ELSE "inferred"
  /\ ret' = IF call.op = "inference" THEN ValueRet("probs") ELSE ret
  /\ UNCHANGED <<bowVars, fwdVars, trainVars, data, call, loader, acc, gradEnabled, evalMode,
                 passes>>

\* ------------------------------------------------------------- platt_scale
\* What LogisticRegression.fit(logit(probs), outcome) arrives at is not computed
\* here: a fitted calibrator is any map from a raw probability to P(Y = 1), in
\* units of 1/PScale.  The sigmoid of a * logit(p) + b rises with p when a > 0,
\* falls when a < 0 and is flat when a = 0.
\* the raw probabilities the arm heads produce
QVals == {3, 7}
CalVals == {2, 8}
Calibrators == [QVals -> CalVals]

\* lines 41-46: predict_proba has one column per class, P(Y = 0) then P(Y = 1);
\* fit refuses outcomes of a single class (ValueError)
platt_scale(outcome, probs, cal) ==
  IF \A i, j \in DOMAIN outcome : outcome[i] = outcome[j]
    THEN [raised |-> "ValueError", proba |-> <<>>]
    ELSE [raised |-> NoRaise,
          proba |-> [i \in DOMAIN probs |-> <<PScale - cal[probs[i]], cal[probs[i]]>>]]

\* column c of predict_proba's result, c counted from 0 as in proba[:, c]
Column(proba, c) == [i \in DOMAIN proba |-> proba[i][c + 1]]

\* lines 439-444 and 450-455:
\*   if platt_scaling and Y is not None:
\*       Q0 = platt_scale(Ys, Q_probs[:, 0])[:, 0]
\*       Q1 = platt_scale(Ys, Q_probs[:, 1])[:, 1]
\*   else: Q0 = Q_probs[:, 0]; Q1 = Q_probs[:, 1]
\* fit keeps the two calibrators that were fitted, Q_probs0 and Q_probs1 are the
\* columns of Q_probs
QArms(Q_probs0, Q_probs1, Ys, recalibrate, cal0, cal1) ==
  LET p0 == platt_scale(Ys, Q_probs0, cal0)
      p1 == platt_scale(Ys, Q_probs1, cal1)
  IN IF ~recalibrate
       THEN [raised |-> NoRaise, Q0 |-> Q_probs0, Q1 |-> Q_probs1, fit |-> <<>>]
     ELSE IF p0.raised # NoRaise
       THEN [raised |-> p0.raised, Q0 |-> <<>>, Q1 |-> <<>>, fit |-> <<>>]
     ELSE [raised |-> NoRaise, Q0 |-> Column(p0.proba, 0), Q1 |-> Column(p1.proba, 1),
           fit |-> <<cal0, cal1>>]

\* Q0 - Q1, entry by entry
Diffs(Q0, Q1) == [i \in DOMAIN Q0 |-> Q0[i] - Q1[i]]

\* an effect computed with the arms swapped
ATE_value_Swapped(Q0, Q1) == MeanOf(Diffs(Q1, Q0))

\* lines 443-446: np.mean(Q0 - Q1)
ATE_value(Q0, Q1) == MeanOf(Diffs(Q0, Q1))

ATEReturn ==
  /\ pc = "inferred"
  /\ call.op = "ATE"
  /\ \E cal0, cal1 \in Calibrators :
       LET arms == QArms(acc.Q0s, acc.Q1s, acc.Ys,
                         call.platt_scaling /\ call.yGiven, cal0, cal1)
       IN /\ acc' = [acc EXCEPT !.Q0 = arms.Q0, !.Q1 = arms.Q1, !.fit = arms.fit]
          /\ ret' = IF arms.raised # NoRaise THEN RaisedRet(arms.raised)
                    ELSE ATE_value(arms.Q0, arms.Q1)
  /\ pc' = IF ret'.raised # NoRaise THEN "raised" ELSE "done"
  /\ UNCHANGED <<bowVars, fwdVars, trainVars, data, call, loader, gradEnabled, evalMode,
                 passes>>

\* torch.round(gs).type(torch.int): to the nearest integer, a tie to the even one
RoundHalfEven(v) ==
  IF 2 * v < PScale THEN 0 ELSE IF 2 * v > PScale THEN 1 ELSE 0

\* lines 456-460: the treatments ATT selects on
ATT_treatments(tGiven, T, gs) ==
  IF ~tGiven THEN [i \in DOMAIN gs |-> RoundHalfEven(gs[i])] ELSE T

\* Q0[T1_indices] - Q1[T1_indices] on numpy arrays. Q0 = Q_probs[:, 0].squeeze() is
\* 0-d when there is one example, and a 0-d array takes no index at all; a 0-d
\* index picks one entry, a 1-d index picks the entries it lists.
ATT_value(Q0, Q1, T) ==
  LET T1_indices == NonzeroSqueeze(T, 1)
      picked == [j \in 1..Len(T1_indices.at) |->
                   Q0[T1_indices.at[j]] - Q1[T1_indices.at[j]]]
  IN IF Len(Q0) = 1 THEN RaisedRet("IndexError")
     ELSE IF picked = <<>> THEN NanRet
     ELSE MeanOf(picked)

ATTReturn ==
  /\ pc = "inferred"
  /\ call.op = "ATT"
  /\ \E cal0, cal1 \in Calibrators :
       LET arms == QArms(acc.Q0s, acc.Q1s, acc.Ys,
                         call.platt_scaling /\ call.yGiven, cal0, cal1)
       IN /\ acc' = [acc EXCEPT !.Q0 = arms.Q0, !.Q1 = arms.Q1, !.fit = arms.fit]
          /\ ret' = IF arms.raised # NoRaise THEN RaisedRet(arms.raised)
                    ELSE ATT_value(arms.Q0, arms.Q1,
                                   ATT_treatments(call.tGiven, call.T, acc.gs))
  /\ pc' = IF ret'.raised # NoRaise THEN "raised" ELSE "done"
  /\ UNCHANGED <<bowVars, fwdVars, trainVars, data, call, loader, gradEnabled, evalMode,
                 passes>>

\* ------------------------------------------------------------- the calls made
GVals == {3, 5, 7}
BatchSizes == {1, 2}     \* main() runs with batch_size=2

Call(op, tGiven, T, yGiven, batch_size, response) ==
  [op |-> op, tGiven |-> tGiven, T |-> T, yGiven |-> yGiven, platt_scaling |-> FALSE,
   batch_size |-> batch_size, response |-> response, prev_grad |-> TRUE]

\* ATE(C, W), ATT(C, W, T) and inference(W, C) on N texts
InitEstimate ==
  \E N \in 1..MaxN :
    \E q0 \in [1..N -> QVals], q1 \in [1..N -> QVals], g \in [1..N -> GVals],
       op \in {"inference", "ATE", "ATT"}, bs \in BatchSizes,
       tGiven \in BOOLEAN, T \in [1..N -> {0, 1}] :
      /\ (tGiven => op = "ATT")
      /\ data = [i \in 1..N |-> Example(0, -1, -1, 3, g[i], q0[i], q1[i])]
      /\ call = Call(op, tGiven, IF tGiven THEN T ELSE <<>>, FALSE, bs, "binary")

\* ATE(C, W, Y, platt_scaling=True) and ATT(C, W, Y, T, platt_scaling=True)
InitRecalibrate ==
  \E N \in 1..MaxN :
    \E q0 \in [1..N -> QVals], q1 \in [1..N -> QVals], Y \in [1..N -> YVals],
       op \in {"ATE", "ATT"}, T \in [1..N -> {0, 1}] :
      /\ (op = "ATE" => \A i \in 1..N : T[i] = 1)
      /\ data = [i \in 1..N |-> Example(0, -1, Y[i], 3, 5, q0[i], q1[i])]
      /\ call = [Call(op, op = "ATT", IF op = "ATT" THEN T ELSE <<>>, TRUE,
                      2, "binary")
                   EXCEPT !.platt_scaling = TRUE]

\* evaluate_losses(dev) and evaluate_losses_pretrain(dev) on N labelled examples
InitEvaluate ==
  \E N \in 1..MaxN :
    \E T \in [1..N -> {0, 1}], Y \in [1..N -> YVals], lens \in [1..N -> {2, 3}],
       op \in {"evaluate_losses", "evaluate_losses_pretrain"}, bs \in BatchSizes,
       response \in Responses :
      /\ data = [i \in 1..N |-> Example(0, T[i], Y[i], lens[i], 5, 3, 7)]
      /\ call = Call(op, FALSE, <<>>, TRUE, bs, response)

Init ==
  /\ InitEstimate \/ InitRecalibrate \/ InitEvaluate
  /\ pc = "start"
  /\ loader = <<>>
  /\ acc = NoAcc
  /\ gradEnabled = TRUE
  /\ evalMode = FALSE
  /\ passes = {}
  /\ ret = NoRet
  /\ IdleBow
  /\ IdleFwd
  /\ IdleTrain

Next ==
  \/ EvaluateStart
  \/ EvaluateBatch
  \/ EvaluatePretrainBatch
  \/ EvaluateReturn
  \/ InferenceStart
  \/ InferenceBatch
  \/ InferenceReturn
  \/ ATEReturn
  \/ ATTReturn

Spec == Init /\ [][Next]_vars

(***************************************************************************)
(* CausalBertWrapper.train.  One step per statement of the loop body, one  *)
(* per loop head and loop tail, and the call of evaluate_losses(dev) as a   *)
(* start step, one step per batch of dev, and a return step.               *)
(***************************************************************************)
\* the statements of the loop body that act on the model, the optimizer and the
\* schedule, in program order (lines 338, 339, 343, 344, 345)
LoopBody_StepBeforeBackward ==
  <<"zero_grad", "forward", "optimizer.step", "backward", "scheduler.step">>

LoopBody ==
  <<"zero_grad", "forward", "backward", "optimizer.step", "scheduler.step">>

\* what the body is about to execute
AtStatement(name) ==
  /\ pc = "body"
  /\ loader # <<>>
  /\ tr.at <= Len(LoopBody)
  /\ LoopBody[tr.at] = name

\* line 318: total_steps = len(dataloader) * epochs
TotalSteps(len, epochs) == len * epochs

\* RandomSampler: the orders in which the n training examples can be drawn
Shuffles(n) == {p \in [1..n -> 1..n] : \A i, j \in 1..n : p[i] = p[j] => i = j}

\* lines 315-324: the dataloader, model.train(), the optimizer and its schedule,
\* the empty histories
TrainStart ==
  /\ pc = "start"
  /\ call.op = "train"
  /\ evalMode' = FALSE
  /\ LET len == Len(build_dataloader(data, TRUE, TRUE, call.batch_size))
     IN tr' = [tr EXCEPT !.len = len,
                         !.total_steps = TotalSteps(len, tr.epochs),
                         !.epoch = 0,
                         !.opt_steps = 0,
                         !.sched_steps = 0,
                         !.training_losses = <<>>,
                         !.dev_losses = <<>>]
  /\ pc' = "epoch"
  /\ UNCHANGED <<bowVars, fwdVars, data, call, loader, acc, gradEnabled, passes, ret>>

\* lines 326-333: the next epoch of range(epochs): fresh loss lists, model.train(),
\* and a new pass over the dataloader, which draws the examples in a random order
TrainEpoch ==
  /\ pc = "epoch"
  /\ tr.epoch < tr.epochs
  /\ evalMode' = FALSE
  /\ \E p \in Shuffles(Len(data)) :
       loader' = build_dataloader([i \in 1..Len(data) |-> data[p[i]]], TRUE, TRUE,
                                  call.batch_size)
  /\ tr' = [tr EXCEPT !.total_losses = <<>>, !.at = 1]
  /\ pc' = "body"
  /\ UNCHANGED <<bowVars, fwdVars, data, call, acc, gradEnabled, passes, ret>>

\* line 338: self.model.zero_grad()
TrainZeroGrad ==
  /\ AtStatement("zero_grad")
  /\ tr' = [tr EXCEPT !.at = @ + 1, !.log = Append(@, "zero_grad")]
  /\ UNCHANGED <<bowVars, fwdVars, wrapVars>>

\* lines 339-341: the forward pass (use_mlm is left at its default, True) and the
\* weighted loss
TrainForward ==
  /\ AtStatement("forward")
  /\ \E u \in Draws(Len(Head(loader))) :
       LET out == forward(Head(loader), TRUE, TRUE, call.response, u)
       IN /\ passes' = passes \cup {Pass("forward", TRUE)}
          /\ IF out.raised # NoRaise
               THEN /\ ret' = RaisedRet(out.raised)
                    /\ pc' = "raised"
                    /\ tr' = [tr EXCEPT !.log = Append(@, "forward")]
               ELSE /\ tr' = [tr EXCEPT !.at = @ + 1,
                                        !.log = Append(@, "forward"),
                                        !.losses = [g_loss |-> out.g_loss,
                                                    Q_loss |-> out.Q_loss,
                                                    mlm_loss |-> out.mlm_loss]]
                    /\ UNCHANGED <<ret, pc>>
  /\ UNCHANGED <<bowVars, fwdVars, data, call, loader, acc, gradEnabled, evalMode>>

\* line 343: loss.backward()
TrainBackward ==
  /\ AtStatement("backward")
  /\ tr' = [tr EXCEPT !.at = @ + 1, !.log = Append(@, "backward")]
  /\ UNCHANGED <<bowVars, fwdVars, wrapVars>>

\* line 344: optimizer.step()
TrainOptimizerStep ==
  /\ AtStatement("optimizer.step")
  /\ tr' = [tr EXCEPT !.at = @ + 1, !.log = Append(@, "optimizer.step"),
                      !.opt_steps = @ + 1]
  /\ UNCHANGED <<bowVars, fwdVars, wrapVars>>

\* line 345: scheduler.step()
TrainSchedulerStep ==
  /\ AtStatement("scheduler.step")
  /\ tr' = [tr EXCEPT !.at = @ + 1, !.log = Append(@, "scheduler.step"),
                      !.sched_steps = @ + 1]
  /\ UNCHANGED <<bowVars, fwdVars, wrapVars>>

\* lines 347-350: the batch's losses join the epoch's lists; on to the next batch
TrainRecordLosses ==
  /\ pc = "body"
  /\ loader # <<>>
  /\ tr.at = Len(LoopBody) + 1
  /\ tr' = [tr EXCEPT !.at = 1, !.total_losses = Append(@, tr.losses)]
  /\ loader' = Tail(loader)
  /\ UNCHANGED <<bowVars, fwdVars, data, call, pc, acc, gradEnabled, evalMode, passes,
                 ret>>

\* lines 352-366: the dataloader is exhausted; the epoch's means join the training
\* history (n is the number of batch losses the means are taken over)
TrainEpochLosses ==
  /\ pc = "body"
  /\ loader = <<>>
  /\ tr' = [tr EXCEPT !.training_losses =
                        Append(@, [epoch |-> tr.epoch, n |-> Len(tr.total_losses)])]
  /\ pc' = "evaluate"
  /\ UNCHANGED <<bowVars, fwdVars, data, call, loader, acc, gradEnabled, evalMode,
                 passes, ret>>

\* line 368 into lines 397-401: evaluate_losses(dev) begins
TrainEvaluateStart ==
  /\ pc = "evaluate"
  /\ evalMode' = TRUE
  /\ loader' = build_dataloader(tr.dev, TRUE, TRUE, call.batch_size)
  /\ call' = [call EXCEPT !.prev_grad = gradEnabled]
  /\ gradEnabled' = FALSE
  /\ acc' = NoAcc
  /\ tr' = [tr EXCEPT !.log = Append(@, "evaluate_losses")]
  /\ pc' = "dev_loop"
  /\ UNCHANGED <<bowVars, fwdVars, data, passes, ret>>

\* lines 403-410: one batch of dev
TrainEvaluateBatch ==
  /\ pc = "dev_loop"
  /\ loader # <<>>
  /\ LET out == forward(Head(loader), TRUE, FALSE, call.response,
                        [i \in 1..Len(Head(loader)) |-> 0])
     IN /\ passes' = passes \cup {[Pass("forward", FALSE) EXCEPT !.op = "evaluate_losses"]}
        /\ IF out.raised # NoRaise
             THEN /\ gradEnabled' = call.prev_grad
                  /\ ret' = RaisedRet(out.raised)
                  /\ pc' = "raised"
                  /\ UNCHANGED <<loader, acc>>
             ELSE /\ acc' = [acc EXCEPT !.g_losses = Append(@, out.g_loss),
                                        !.Q_losses = Append(@, out.Q_loss)]
                  /\ loader' = Tail(loader)
                  /\ UNCHANGED <<gradEnabled, ret, pc>>
  /\ UNCHANGED <<bowVars, fwdVars, trainVars, data, call, evalMode>>

\* lines 411-413 back into lines 368-374: evaluate_losses returns its means, they
\* join the held-out history, and the epoch is over
TrainEvaluateReturn ==
  /\ pc = "dev_loop"
  /\ loader = <<>>
  /\ gradEnabled' = call.prev_grad
  /\ tr' = [tr EXCEPT !.dev_losses =
                        Append(@, [epoch |-> tr.epoch, n |-> Len(acc.g_losses)]),
                      !.epoch = @ + 1]
  /\ pc' = "epoch"
  /\ UNCHANGED <<bowVars, fwdVars, data, call, loader, acc, evalMode, passes, ret>>

\* lines 376-379: range(epochs) is exhausted; the two histories are returned
TrainReturn ==
  /\ pc = "epoch"
  /\ tr.epoch >= tr.epochs
  /\ ret' = ValueRet("histories")
  /\ pc' = "done"
  /\ UNCHANGED <<bowVars, fwdVars, trainVars, data, call, loader, acc, gradEnabled,
                 evalMode, passes>>

\* train(train, dev, epochs=E) on N training and M held-out examples
InitTrain ==
  /\ \E N \in 0..MaxN, M \in 0..MaxN, E \in 0..MaxEpochs :
       \E T \in [1..N -> TVals], bs \in BatchSizes, response \in Responses :
         /\ data = [i \in 1..N |-> Example(0, T[i], 1, 3, 5, 3, 7)]
         /\ call = Call("train", FALSE, <<>>, TRUE, bs, response)
         /\ tr = [NoTrain EXCEPT !.dev = [i \in 1..M |-> Example(0, i % 2, 1, 3, 5, 3, 7)],
                                 !.epochs = E]
  /\ pc = "start"
  /\ loader = <<>>
  /\ acc = NoAcc
  /\ gradEnabled = TRUE
  /\ evalMode = FALSE
  /\ passes = {}
  /\ ret = NoRet
  /\ IdleBow
  /\ IdleFwd

NextTrain ==
  \/ TrainStart
  \/ TrainEpoch
  \/ TrainZeroGrad
  \/ TrainForward
  \/ TrainBackward
  \/ TrainOptimizerStep
  \/ TrainSchedulerStep
  \/ TrainRecordLosses
  \/ TrainEpochLosses
  \/ TrainEvaluateStart
  \/ TrainEvaluateBatch
  \/ TrainEvaluateReturn
  \/ TrainReturn

SpecTrain == InitTrain /\ [][NextTrain]_vars

(***************************************************************************)
(* Properties of forward (checked under SpecForward).                      *)
(***************************************************************************)
FwdN == Len(fwd.batch)
FwdT == Col(fwd.batch, "T")
ForwardDone == fwd.fn = "forward" /\ fwd.done
ConfoundersInRange == \A i \in 1..FwdN : fwd.batch[i].C \in 0..(NumLabels - 1)

\* the (head, example of the prediction, example of the label) triples a loss scores
LossPairs(l) ==
  {[head |-> l.terms[j].head, qex |-> l.terms[j].qex, yex |-> l.terms[j].yex] :
     j \in 1..Len(l.terms)}

\* C1: with Y given and every T in {0,1}, the outcome loss scores, for each example
\* of the batch, exactly one pair: the prediction of the head of its observed T for
\* that example with that example's own Y, and it scores no other pair.
C1_EachExampleOneFactualPair ==
  (ForwardDone /\ fwd.yGiven /\ \A i \in 1..FwdN : FwdT[i] \in {0, 1})
    => /\ fwd.out.raised = NoRaise
       /\ LossPairs(fwd.out.Q_loss)
            = {[head |-> FwdT[i], qex |-> i, yex |-> i] : i \in 1..FwdN}

\* C2: with Y given and a non-empty batch whose examples all have the same T (one
\* arm is empty), forward does not raise, returns a numeric outcome loss, and the
\* empty arm's head contributes no term to it.
C2_EmptyArmDoesNotRaise ==
  \A arm \in {0, 1} :
    (ForwardDone /\ fwd.yGiven /\ FwdN >= 1 /\ \A i \in 1..FwdN : FwdT[i] = arm)
      => /\ fwd.out.raised = NoRaise
         /\ IsNumericLoss(fwd.out.Q_loss)
         /\ \A p \in LossPairs(fwd.out.Q_loss) : p.head = arm

\* C3: with MLM on, in forward and in forward_pretrain, the masked position p of
\* every example of true length n satisfies 1 <= p <= n - 2.
C3_MaskedPositionInside ==
  (fwd.fn \in {"forward", "forward_pretrain"} /\ fwd.done /\ fwd.use_mlm)
    => \A i \in 1..FwdN :
         /\ 1 <= fwd.out.rows[i].mask
         /\ fwd.out.rows[i].mask <= fwd.batch[i].W_len - 2

\* C9 as stated: with Y omitted, whatever use_mlm is, the three returned losses are
\* zero and g, Q0 and Q1 hold one value per example.
C9_AllLossesZeroWithoutY ==
  (ForwardDone /\ ~fwd.yGiven /\ ConfoundersInRange)
    => /\ fwd.out.raised = NoRaise
       /\ IsZeroLoss(fwd.out.g_loss)
       /\ IsZeroLoss(fwd.out.Q_loss)
       /\ IsZeroLoss(fwd.out.mlm_loss)
       /\ Len(fwd.out.g) = FwdN /\ Len(fwd.out.Q0) = FwdN /\ Len(fwd.out.Q1) = FwdN

\* C9 as amended: with Y omitted and the confounders inside [0, num_labels), the
\* propensity and outcome losses are zero, the MLM loss is zero exactly when
\* use_mlm is false (with use_mlm true it is the cross-entropy at the masked
\* positions), and g, Q0 and Q1 hold one value per example.
C9_LossesWithoutY ==
  (ForwardDone /\ ~fwd.yGiven /\ ConfoundersInRange)
    => /\ fwd.out.raised = NoRaise
       /\ IsZeroLoss(fwd.out.g_loss)
       /\ IsZeroLoss(fwd.out.Q_loss)
       /\ (IsZeroLoss(fwd.out.mlm_loss) <=> ~fwd.use_mlm)
       /\ (fwd.use_mlm =>
             /\ fwd.out.mlm_loss.kind = "mean"
             /\ Len(fwd.out.mlm_loss.terms) = FwdN)
       /\ Len(fwd.out.g) = FwdN /\ Len(fwd.out.Q0) = FwdN /\ Len(fwd.out.Q1) = FwdN

C9_Witness ==
  /\ ForwardDone /\ ~fwd.yGiven /\ ~fwd.use_mlm /\ FwdN = 2
  /\ fwd.out.raised = NoRaise
  /\ IsZeroLoss(fwd.out.mlm_loss)
  /\ Len(fwd.out.Q0) = 2

(***************************************************************************)
(* Properties of make_bow_vector (checked under SpecBow).                  *)
(***************************************************************************)
BowIdsInRange == \A b \in DOMAIN bow.ids : bow.ids[b] \in 0..(bow.vocab_size - 1)

\* C4: for ids in [0, w) and use_counts false, each row of the result has length w,
\* holds 1 at the index of its id and 0 elsewhere, except that index 1 holds 0
\* whatever the id is.
C4_IndicatorExceptPad ==
  (bow.done /\ ~bow.use_counts /\ BowIdsInRange)
    => /\ bow.out.raised = NoRaise
       /\ DOMAIN bow.out.vec = DOMAIN bow.ids
       /\ \A b \in DOMAIN bow.ids :
            /\ DOMAIN bow.out.vec[b] = 0..(bow.vocab_size - 1)
            /\ \A j \in 0..(bow.vocab_size - 1) :
                 bow.out.vec[b][j] = IF j = bow.ids[b] /\ j # 1 THEN 1 ELSE 0

C4_Witness ==
  /\ bow.done /\ ~bow.use_counts /\ bow.vocab_size = 3
  /\ bow.ids = <<2, 1>>
  /\ bow.out.raised = NoRaise
  /\ bow.out.vec[1][2] = 1

\* C5 as stated: at width num_labels, a row encoding value 1 and a row encoding
\* value 0 are the same vector.
C5_EncodeOneEqualsEncodeZero ==
  (bow.done /\ bow.vocab_size = NumLabels /\ bow.out.raised = NoRaise)
    => \A a, b \in DOMAIN bow.ids :
         (bow.ids[a] = 0 /\ bow.ids[b] = 1) => bow.out.vec[a] = bow.out.vec[b]

\* C5 as amended: at width num_labels the encoding of value 1 is the all-zero
\* vector; it agrees with the encoding of value 0 at index 1 (both 0) and differs
\* from it at index 0, where the encoding of value 0 holds 1.
C5_EncodeOneIsZeroVector ==
  (bow.done /\ bow.vocab_size = NumLabels /\ bow.out.raised = NoRaise)
    => \A a, b \in DOMAIN bow.ids :
         (bow.ids[a] = 0 /\ bow.ids[b] = 1)
           => /\ \A j \in 0..(NumLabels - 1) : bow.out.vec[b][j] = 0
              /\ bow.out.vec[a][1] = bow.out.vec[b][1]
              /\ bow.out.vec[a][0] = 1
              /\ bow.out.vec[a][0] # bow.out.vec[b][0]

C5_Witness ==
  /\ bow.done /\ bow.vocab_size = NumLabels /\ ~bow.use_counts
  /\ bow.ids = <<0, 1>>
  /\ bow.out.raised = NoRaise
  /\ bow.out.vec[2] = [j \in 0..(NumLabels - 1) |-> 0]

(***************************************************************************)
(* Properties of the wrapper's entry points (checked under Spec).          *)
(***************************************************************************)
DataN == Len(data)
Returned == pc \in {"done", "raised"}

\* the sum of Q0_i - Q1_i over the examples i of S, from what the heads produce
DiffSumOver(S) ==
  SumSeq([i \in 1..DataN |-> IF i \in S THEN data[i].q0 - data[i].q1 ELSE 0])

\* C6: ATE without recalibration returns the mean of Q0_i - Q1_i over all the input
\* examples; if Q0 is a and Q1 is b for every example it returns a - b (0.3 and 0.7
\* give -0.4).
C6_ATEIsMeanDifference ==
  /\ (call.op = "ATE" /\ ~call.platt_scaling) => pc # "raised"
  /\ (call.op = "ATE" /\ ~call.platt_scaling /\ pc = "done")
       => /\ ret.raised = NoRaise /\ ret.kind = "mean" /\ ret.den > 0
          /\ ret.num * DataN = ret.den * DiffSumOver(1..DataN)
          /\ \A a, b \in QVals :
               (\A i \in 1..DataN : data[i].q0 = a /\ data[i].q1 = b)
                 => ret.num = (a - b) * ret.den

\* two examples in two batches, Q0 = 0.3 and Q1 = 0.7 throughout, ATE = -0.4
C6_Witness ==
  /\ call.op = "ATE" /\ pc = "done" /\ DataN = 2 /\ call.batch_size = 1
  /\ \A i \in 1..DataN : data[i].q0 = 3 /\ data[i].q1 = 7
  /\ ret.kind = "mean"
  /\ ret.num * 10 = -4 * PScale * ret.den

\* the sets of examples "whose treatment equals 1": the supplied T_i, or else the
\* propensity rounded to the nearest of 0 and 1 (a propensity of exactly one half
\* is as near to 0 as to 1)
TreatedSets ==
  IF call.tGiven THEN {{i \in 1..DataN : call.T[i] = 1}}
  ELSE {S \in SUBSET (1..DataN) :
          \A i \in 1..DataN : /\ 2 * data[i].g > PScale => i \in S
                              /\ 2 * data[i].g < PScale => i \notin S}

\* C7: ATT returns the mean of Q0_i - Q1_i over exactly the examples whose
\* treatment equals 1, for every treated set of one example or more.
C7_ATTIsMeanOverTreated ==
  (call.op = "ATT" /\ ~call.platt_scaling /\ Returned /\ \A S \in TreatedSets : S # {})
    => /\ ret.raised = NoRaise
       /\ \E S \in TreatedSets :
            /\ ret.kind = "mean" /\ ret.den > 0
            /\ ret.num * Cardinality(S) = ret.den * DiffSumOver(S)

\* C8: ATT on inputs with no treated example (all supplied T = 0, or every
\* propensity below one half) completes without an exception and returns the
\* empty-mean sentinel.
C8_ATTEmptyTreatedSentinel ==
  (call.op = "ATT" /\ ~call.platt_scaling /\ Returned /\ TreatedSets = {{}})
    => /\ ret.raised = NoRaise
       /\ ret.kind = "nan"

\* a calibrator whose P(Y = 1) never falls as the raw probability rises
Monotone(cal) == \A a, b \in QVals : a <= b => cal[a] <= cal[b]

\* ATE or ATT has recalibrated both arms
Recalibrated ==
  /\ call.op \in {"ATE", "ATT"} /\ call.platt_scaling /\ call.yGiven
  /\ Returned /\ Len(acc.fit) = 2

\* C11: when ATE or ATT recalibrates (recalibration requested, outcomes supplied)
\* and each fitted calibrator's P(Y = 1) is monotone non-decreasing in the raw
\* probability, the values used in place of Q0 keep the rank order of the raw Q0
\* across examples, and the values used in place of Q1 that of the raw Q1.
C11_RecalibrationKeepsRankOrder ==
  (Recalibrated /\ Monotone(acc.fit[1]) /\ Monotone(acc.fit[2]))
    => \A i, j \in 1..DataN :
         /\ acc.Q0s[i] <= acc.Q0s[j] => acc.Q0[i] <= acc.Q0[j]
         /\ acc.Q1s[i] <= acc.Q1s[j] => acc.Q1[i] <= acc.Q1[j]

\* C10: every forward pass issued by evaluate_losses, evaluate_losses_pretrain,
\* inference, ATE and ATT runs with gradient computation disabled.
C10_PassesWithoutGrad ==
  \A p \in passes :
    p.op \in {"evaluate_losses", "evaluate_losses_pretrain", "inference", "ATE", "ATT"}
      => ~p.grad

(***************************************************************************)
(* Confounders outside the vector (checked under SpecBow; the callers under *)
(* SpecForward).                                                           *)
(***************************************************************************)
\* the rows whose id is outside [0, width)
OutOfRangeRows ==
  {b \in DOMAIN bow.ids : bow.ids[b] < 0 \/ bow.ids[b] >= bow.vocab_size}

Clip(id, width) == IF id < 0 THEN 0 ELSE IF id >= width THEN width - 1 ELSE id

\* C14: for every confounder value outside [0, width) the encoding never writes
\* outside the width-sized vector: the value is clipped into range or the call
\* fails with an error, and no vector with an entry outside indices 0..width-1
\* is produced.
C14_NoWriteOutsideVector ==
  bow.done
    => /\ \A b \in DOMAIN bow.out.vec :
            DOMAIN bow.out.vec[b] = 0..(bow.vocab_size - 1)
       /\ OutOfRangeRows # {}
            => \/ bow.out.raised # NoRaise /\ bow.out.vec = <<>>
               \/ /\ bow.out.raised = NoRaise
                  /\ \A b \in OutOfRangeRows :
                       bow.out.vec[b] = BowRow(Clip(bow.ids[b], bow.vocab_size),
                                               bow.vocab_size, bow.use_counts)

\* C = 2 with width 2 (and C = -1 next to a valid row): the call fails
C14_Witness ==
  /\ bow.done /\ bow.vocab_size = NumLabels
  /\ bow.ids \in {<<NumLabels>>, <<0, -1>>}
  /\ bow.out.raised = "RuntimeError"
  /\ bow.out.vec = <<>>

\* the callers: forward and forward_pretrain stop at the encoding of such a batch,
\* before any head has run
BadConfounderStopsForward ==
  (fwd.done /\ fwd.fn # None /\ ~ConfoundersInRange)
    => /\ fwd.out.raised = "RuntimeError"
       /\ fwd.out.g = <<>> /\ fwd.out.Q0 = <<>> /\ fwd.out.Q1 = <<>>

(***************************************************************************)
(* Malformed labels in forward (checked under SpecForward).                *)
(***************************************************************************)
\* the examples of the batch whose treatment is no class index, as the dummy -1
MalformedT == {i \in 1..FwdN : FwdT[i] \notin 0..(NumLabels - 1)}

\* C13: in forward with outcomes supplied and response type binary, a batch in
\* which a single example carries a malformed label (here: a treatment outside
\* {0,1}, such as the sentinel -1) does not abort: no exception is raised, the
\* offending example contributes to neither loss, and numeric propensity and
\* outcome losses are returned.
C13_MalformedLabelSkipped ==
  (ForwardDone /\ fwd.yGiven /\ fwd.response = "binary" /\ Cardinality(MalformedT) = 1)
    => /\ fwd.out.raised = NoRaise
       /\ IsNumericLoss(fwd.out.g_loss)
       /\ IsNumericLoss(fwd.out.Q_loss)
       /\ \A j \in 1..Len(fwd.out.g_loss.terms) :
            fwd.out.g_loss.terms[j].ex \notin MalformedT
       /\ \A p \in LossPairs(fwd.out.Q_loss) :
            p.qex \notin MalformedT /\ p.yex \notin MalformedT

(***************************************************************************)
(* Properties of train (checked under SpecTrain).                          *)
(***************************************************************************)
\* B, the number of mini-batches per epoch: N examples in batches of batch_size,
\* the last one possibly short
TrainB == (Len(data) + call.batch_size - 1) \div call.batch_size

RECURSIVE Repeat(_, _)
Repeat(s, k) == IF k = 0 THEN <<>> ELSE s \o Repeat(s, k - 1)

\* what one batch is to go through, and what E epochs of B batches are to go through
BatchEvents == <<"zero_grad", "forward", "backward", "optimizer.step", "scheduler.step">>
EpochEvents(B) == Repeat(BatchEvents, B) \o <<"evaluate_losses">>
ExpectedLog(E, B) == Repeat(EpochEvents(B), E)

IsPrefix(a, b) == Len(a) <= Len(b) /\ SubSeq(b, 1, Len(a)) = a
EpochNumbers(history) == [i \in DOMAIN history |-> history[i].epoch]

\* C12: train with E epochs and B mini-batches per epoch processes the batches one
\* at a time, each as zero gradients, forward, backward, optimizer step, scheduler
\* step; after the B-th batch of an epoch and before the first batch of the next
\* exactly one held-out evaluation pass runs, with MLM disabled; on return exactly
\* E*B optimizer steps, the scheduler's planned total, have been applied, and the
\* training and the held-out history each hold E entries, for epochs 0..E-1 in
\* increasing order.
C12_TrainSchedule ==
  call.op = "train"
    => /\ IsPrefix(tr.log, ExpectedLog(tr.epochs, TrainB))
       /\ \A p \in passes : p.op = "evaluate_losses" => ~p.use_mlm
       /\ pc = "done"
            => /\ tr.log = ExpectedLog(tr.epochs, TrainB)
               /\ tr.opt_steps = tr.epochs * TrainB
               /\ tr.opt_steps = tr.total_steps
               /\ tr.sched_steps = tr.opt_steps
               /\ EpochNumbers(tr.training_losses) = [i \in 1..tr.epochs |-> i - 1]
               /\ EpochNumbers(tr.dev_losses) = [i \in 1..tr.epochs |-> i - 1]

\* two epochs of two batches each have returned, with held-out batches evaluated
C12_Witness ==
  /\ call.op = "train" /\ pc = "done"
  /\ tr.epochs = 2 /\ Len(data) = 2 /\ call.batch_size = 1
  /\ tr.opt_steps = 4
  /\ Len(tr.dev_losses) = 2
  /\ \E p \in passes : p.op = "evaluate_losses"

====
